---------------------------- MODULE Spec2Model ----------------------------
(***************************************************************************)
(* A model of the reference-citation pipeline of the search assistant      *)
(* (src/search_assistant/src/search_assistant.py).                         *)
(*                                                                         *)
(* Text is a sequence of one-character strings, so that the regular        *)
(* expression of parse_serp_analysis_output, the f-strings that build      *)
(* markers and citations, and str.replace / `in` of parse_retrieval_output *)
(* are computed character by character.                                    *)
(*                                                                         *)
(* A Python call either returns a value or raises: a result is the record  *)
(* [raised |-> "none" or the exception's class, value |-> the value].      *)
(***************************************************************************)
EXTENDS Integers, Sequences, FiniteSets, TLC

VARIABLES
    \* --- SearchAssistant.parse_serp_analysis_output / parse_retrieval_output
    answer,            \* the LLM-generated answer (result['answer'])
    links,             \* the link list / self.urls handed to the parser
    source_documents,  \* result['source_documents'], as the list of their sources
    question_sources_map, \* the dict built at line 656 (<<>> when not built)
    cite_op,           \* "input", "parse_serp_analysis_output", "parse_retrieval_output"
    cite_ret           \* the result of the call

VARIABLES
    \* --- SearchAssistant.querySerpapi
    serp_args,         \* the arguments of the call: query, do_analysis, engine
    serp_api,          \* what search.get_dict() did: raised, or the response
    serp_llm,          \* what self.llm.invoke did: raised, or the answer
    serp_out,          \* the call's result, its log records and its external calls
    serp_op            \* "idle", "querySerpapi"

VARIABLES
    \* --- the SearchAssistant object and the index location
    documents,         \* self.documents
    urls,              \* self.urls
    vector_store,      \* self.vector_store: the chunks the loaded index holds
    disk,              \* the index stored at persist_directory, if the location exists
    params,            \* the configuration read by _get_config_info
    call               \* the last call: its arguments, what it saw, what it did

VARIABLES
    \* --- the conversation memory, the retrieval chain and the last turn
    memory,            \* self.memory
    qa_chain,          \* self.qa_chain
    turn               \* the last call of a turn's method: arguments, result, log, calls

VARIABLES
    \* --- SearchAssistant.link_filter
    filt               \* the arguments and the result of a call of link_filter

VARIABLES
    \* --- streamlit/app.py: the session and the script run that serves it
    session,           \* st.session_state: the three histories
    pc,                \* where the script run stands
    task,              \* the related-questions task given to the executor
    locals             \* the local variables of handle_user_input

citeVars == <<answer, links, source_documents, question_sources_map, cite_op, cite_ret>>
serpVars == <<serp_args, serp_api, serp_llm, serp_out, serp_op>>

asstVars == <<documents, urls, vector_store, disk, params, call>>

turnVars == <<memory, qa_chain, turn>>
filterVars == <<filt>>
appVars == <<session, pc, task, locals>>
restVars == <<turnVars, filterVars, appVars>>

vars == <<citeVars, serpVars, asstVars, restVars>>

---------------------------------------------------------------------------
(* Bounds of the model. *)

\* the number of pieces an answer text is put together from
MaxPieces == 2
\* the longest link list / crawl URL list
MaxLinks == 2
\* the longest list of source documents a retrieval returns
MaxSourceDocs == 2
\* the longest list of organic results of a search response
MaxResults == 2
\* retrieval.chunk_size and retrieval.chunk_overlap of the configuration
ChunkSize == 2
ChunkOverlap == 0
\* web_crawling.max_scraped_websites of the configuration
MaxScrapedWebsites == 2
\* the longest list of documents handed to the chunker directly
MaxDocs == 2

\* the pairs a conversation memory holds at most
MaxSaved == 1

\* the turns of a session
MaxTurns == 2

---------------------------------------------------------------------------
(* Python values and characters. *)

Ret(v) == [raised |-> "none", value |-> v]
Raise(e) == [raised |-> e, value |-> <<>>]

Digit == {"0", "1", "2", "3", "4", "5", "6", "7", "8", "9"}

DigitVal(c) ==
    CASE c = "0" -> 0 [] c = "1" -> 1 [] c = "2" -> 2 [] c = "3" -> 3
      [] c = "4" -> 4 [] c = "5" -> 5 [] c = "6" -> 6 [] c = "7" -> 7
      [] c = "8" -> 8 [] c = "9" -> 9

DigitChar(d) ==
    CASE d = 0 -> "0" [] d = 1 -> "1" [] d = 2 -> "2" [] d = 3 -> "3"
      [] d = 4 -> "4" [] d = 5 -> "5" [] d = 6 -> "6" [] d = 7 -> "7"
      [] d = 8 -> "8" [] d = 9 -> "9"

\* int(s) of a string of decimal digits
RECURSIVE PyInt(_)
PyInt(s) ==
    IF s = <<>> THEN 0
    ELSE 10 * PyInt(SubSeq(s, 1, Len(s) - 1)) + DigitVal(s[Len(s)])

\* str(n) / f'{n}' of a non-negative integer
RECURSIVE PyStr(_)
PyStr(n) ==
    IF n < 10 THEN <<DigitChar(n)>>
    ELSE PyStr(n \div 10) \o <<DigitChar(n % 10)>>

\* the case folding of re.IGNORECASE on the letters of the pattern
Lower(c) ==
    CASE c = "R" -> "r" [] c = "E" -> "e" [] c = "F" -> "f"
      [] c = "N" -> "n" [] c = "C" -> "c" [] OTHER -> c

\* list[k] of Python, k possibly negative
PyIndex(list, k) ==
    LET n == Len(list)
        j == IF k < 0 THEN k + n ELSE k
    IN  IF j < 0 \/ j >= n THEN Raise("IndexError") ELSE Ret(list[j + 1])

\* `sub in s` of Python strings, and s.find(sub) from position i (1-based; 0: none)
OccursAt(s, sub, i) ==
    /\ i >= 1
    /\ i + Len(sub) - 1 <= Len(s)
    /\ SubSeq(s, i, i + Len(sub) - 1) = sub

PyContains(s, sub) == \E i \in 1..(Len(s) + 1) : OccursAt(s, sub, i)

\* s.replace(old, new): every non-overlapping occurrence, left to right
RECURSIVE PyReplaceFrom(_, _, _, _)
PyReplaceFrom(s, old, new, i) ==
    IF i > Len(s) THEN <<>>
    ELSE IF OccursAt(s, old, i)
         THEN new \o PyReplaceFrom(s, old, new, i + Len(old))
         ELSE <<s[i]>> \o PyReplaceFrom(s, old, new, i + 1)

PyReplace(s, old, new) ==
    IF old = <<>> THEN s ELSE PyReplaceFrom(s, old, new, 1)

---------------------------------------------------------------------------
(* The literals of the citation protocol. *)

WordLower == <<"r", "e", "f", "e", "r", "e", "n", "c", "e">>
WordCapital == <<"R", "e", "f", "e", "r", "e", "n", "c", "e">>
WordUpper == <<"R", "E", "F", "E", "R", "E", "N", "C", "E">>
SupOpen == <<"[", "<", "s", "u", "p", ">">>
SupClose == <<"<", "/", "s", "u", "p", ">", "]", "(">>

\* f'[<sup>{ref_num}</sup>]({link})'
RenderedCitation(n, link) == SupOpen \o PyStr(n) \o SupClose \o link \o <<")">>

\* f'[<sup>{ref_num}</sup>](#)'
DeadLink(n) == SupOpen \o PyStr(n) \o SupClose \o <<"#", ")">>

---------------------------------------------------------------------------
(* parse_serp_analysis_output, lines 202-229. *)

HasAt(s, i, c) == i >= 1 /\ i <= Len(s) /\ s[i] = c

\* the position after the run of \d characters that starts at i
RECURSIVE DigitsEnd(_, _)
DigitsEnd(s, i) ==
    IF i <= Len(s) /\ s[i] \in Digit THEN DigitsEnd(s, i + 1) ELSE i

\* One alternative of the pattern, \[<word>: ?(\d+)\], tried at position i with
\* re.IGNORECASE. The quantifiers are greedy and backtracking never finds
\* another match: after the digits only "]" can follow.
MatchAlternative(s, i, word) ==
    LET colon == i + 1 + Len(word)
        first == IF HasAt(s, colon + 1, " ") THEN colon + 2 ELSE colon + 1
        last  == DigitsEnd(s, first)
        ok == /\ HasAt(s, i, "[")
              /\ colon <= Len(s)
              /\ \A k \in 1..Len(word) : Lower(s[i + k]) = Lower(word[k])
              /\ HasAt(s, colon, ":")
              /\ last > first
              /\ HasAt(s, last, "]")
    IN  IF ok THEN [ok |-> TRUE, stop |-> last + 1, digits |-> SubSeq(s, first, last - 1)]
        ELSE [ok |-> FALSE, stop |-> i, digits |-> <<>>]

\* The compiled pattern tried at position i: the first alternative, and the
\* second only when the first fails. group(1) belongs to the first
\* alternative: it is None when the second one matched.
PatternMatch(s, i) ==
    LET m1 == MatchAlternative(s, i, WordLower)
        m2 == MatchAlternative(s, i, WordCapital)
    IN  IF m1.ok THEN [ok |-> TRUE, stop |-> m1.stop, group1 |-> m1.digits, none1 |-> FALSE]
        ELSE IF m2.ok THEN [ok |-> TRUE, stop |-> m2.stop, group1 |-> <<>>, none1 |-> TRUE]
        ELSE [ok |-> FALSE, stop |-> i, group1 |-> <<>>, none1 |-> FALSE]

\* a slip in the test of line 218: one number too many is taken to have a link
HasLinkUpToNext(ref_num, lnks) == ref_num <= Len(lnks) + 1

\* the test of line 218
HasLink(ref_num, lnks) == ref_num <= Len(lnks)

\* a slip in line 219: the list is indexed by the number itself
replace_reference_unshifted(m, lnks) ==
    IF m.none1 THEN Raise("TypeError")
    ELSE LET ref_num == PyInt(m.group1)
         IN  IF HasLink(ref_num, lnks)
             THEN LET l == PyIndex(lnks, ref_num)
                  IN  IF l.raised # "none" THEN l
                      ELSE Ret(RenderedCitation(ref_num, l.value))
             ELSE Ret(DeadLink(ref_num))

\* replace_reference, lines 214-221
replace_reference(m, lnks) ==
    IF m.none1 THEN Raise("TypeError")
    ELSE LET ref_num == PyInt(m.group1)
         IN  IF HasLink(ref_num, lnks)
             THEN LET l == PyIndex(lnks, ref_num - 1)
                  IN  IF l.raised # "none" THEN l
                      ELSE Ret(RenderedCitation(ref_num, l.value))
             ELSE Ret(DeadLink(ref_num))

\* pattern.sub(callback, answer): scan from the left, replace each match by the
\* callback's result and go on after it; an exception of the callback leaves sub.
RECURSIVE PatternSub(_, _, _)
PatternSub(s, i, lnks) ==
    IF i > Len(s) THEN Ret(<<>>)
    ELSE LET m == PatternMatch(s, i)
         IN  IF m.ok
             THEN LET r == replace_reference(m, lnks)
                  IN  IF r.raised # "none" THEN r
                      ELSE LET rest == PatternSub(s, m.stop, lnks)
                           IN  IF rest.raised # "none" THEN rest
                               ELSE Ret(r.value \o rest.value)
             ELSE LET rest == PatternSub(s, i + 1, lnks)
                  IN  IF rest.raised # "none" THEN rest
                      ELSE Ret(<<s[i]>> \o rest.value)

parse_serp_analysis_output(ans, lnks) == PatternSub(ans, 1, lnks)

---------------------------------------------------------------------------
(* parse_retrieval_output, lines 643-662. *)

Range(f) == {f[i] : i \in DOMAIN f}

\* the orders in which iterating a Python set of strings can yield its elements
SetIterations(S) ==
    {o \in [1..Cardinality(S) -> S] : \A i, j \in DOMAIN o : i # j => o[i] # o[j]}

\* {source: i + 1 for i, source in enumerate(question_sources)}, line 656
SourcesMap(order) == [u \in Range(order) |-> CHOOSE i \in DOMAIN order : order[i] = u]

\* the loop of lines 657-661 from index i (1-based) on
RECURSIVE RemapLoop(_, _, _, _)
RemapLoop(parsed, us, map, i) ==
    IF i > Len(us) THEN Ret(parsed)
    ELSE LET link == us[i]
         IN  IF PyContains(parsed, link)
             THEN IF link \notin DOMAIN map THEN Raise("KeyError")
                  ELSE RemapLoop(PyReplace(parsed, RenderedCitation(i, link),
                                           RenderedCitation(map[link], link)),
                                 us, map, i + 1)
             ELSE RemapLoop(parsed, us, map, i + 1)

\* `order` is the order in which the set of line 655 is iterated at line 656
parse_retrieval_output(ans, us, order) ==
    LET parsed == parse_serp_analysis_output(ans, us)
    IN  IF parsed.raised # "none" THEN parsed
        ELSE RemapLoop(parsed.value, us, SourcesMap(order), 1)

---------------------------------------------------------------------------
(* querySerpapi, lines 235-294, and restrict_to_official_sites, 231-233. *)

\* src/official_sites.py; a site is one token of the query
OFFICIAL_SITES ==
    << "support.microsoft.com", "support.apple.com", "support.lenovo.com",
       "support.hp.com", "dell.com/support", "acer.com/support", "asus.com/support",
       "support.intel.com", "nvidia.com/support",
       "techspot.com", "tomshardware.com", "bleepingcomputer.com", "majorgeeks.com",
       "howtogeek.com", "digitaltrends.com", "techrepublic.com", "pcmag.com",
       "computerworld.com", "makeuseof.com", "lifewire.com",
       "superuser.com", "stackoverflow.com", "askubuntu.com", "tenforums.com",
       "windowsreport.com", "sevenforums.com", "linux.org", "reddit.com/r/techsupport",
       "techradar.com", "theverge.com", "techcommunity.microsoft.com",
       "recoverit.wondershare.com" >>

\* sep.join(parts), parts a list of texts
RECURSIVE PyJoin(_, _)
PyJoin(sep, parts) ==
    IF parts = <<>> THEN <<>>
    ELSE IF Len(parts) = 1 THEN parts[1]
    ELSE parts[1] \o sep \o PyJoin(sep, Tail(parts))

\* f"{query} ({site_restrictions})", a text of tokens
restrict_to_official_sites(query, official_sites) ==
    <<query, " (">>
       \o PyJoin(<<" OR ">>, [i \in DOMAIN official_sites |-> <<"site:", official_sites[i]>>])
       \o <<")">>

\* the engines line 255 lets through
Engines == {"google", "bing"}

\* 'Answer not found'
AnswerNotFound ==
    <<"A", "n", "s", "w", "e", "r", " ", "n", "o", "t", " ", "f", "o", "u", "n", "d">>

\* a key a dict does not hold
Missing == <<"missing key">>

\* d.get(key, '')
PyGet(d, key) == IF d[key] = Missing THEN <<>> ELSE d[key]

\* [r['link'] for r in results], line 273
LinksOf(results) ==
    IF \E i \in DOMAIN results : results[i].link = Missing THEN Raise("KeyError")
    ELSE Ret([i \in DOMAIN results |-> results[i].link])

\* a slip in line 276: the marker carries the 0-based index
ContextEntryZeroBased(i, result) ==
    <<"[">> \o WordLower \o <<":">> \o PyStr(i - 1) \o <<"]", " ">>
        \o PyGet(result, "title") \o <<":", " ">> \o PyGet(result, "snippet")

\* f'[reference:{i+1}] {result.get("title", "")}: {result.get("snippet", "")}',
\* for the result at position i (1-based here, so i is the i+1 of the code)
ContextEntry(i, result) ==
    <<"[">> \o WordLower \o <<":">> \o PyStr(i) \o <<"]", " ">>
        \o PyGet(result, "title") \o <<":", " ">> \o PyGet(result, "snippet")

\* lines 274-277
ContextOf(results) ==
    PyJoin(<<"\n", "\n">>, [i \in DOMAIN results |-> ContextEntry(i, results[i])])

Log(level, event, mentions) == [level |-> level, event |-> event, mentions |-> mentions]

Found(context, lnks, log, raised) ==
    [context |-> context, links |-> lnks, log |-> log, raised |-> raised]

\* a slip in line 283: the handler catches only the transport's exception
SearchTryTransportOnly(query, api) ==
    IF api.raised # "none"
    THEN Found(AnswerNotFound, <<>>, <<Log("error", "Error message", {"exception"})>>, "none")
    ELSE LET results == api.value
         IN  IF Len(results) > 0
             THEN IF LinksOf(results).raised # "none"
                  THEN Found(<<>>, <<>>, <<>>, LinksOf(results).raised)
                  ELSE Found(ContextOf(results), LinksOf(results).value,
                             <<Log("info", "Context found", {"context"})>>, "none")
             ELSE Found(AnswerNotFound, <<>>,
                        <<Log("info", "No answer found", {"query", "response"})>>, "none")

\* The try statement of lines 264-286. api is what search.get_dict() did: it
\* raised, or it returned the response, of which api.value is
\* response.get('organic_results', []).
SearchTry(query, api) ==
    IF api.raised # "none"
    THEN Found(AnswerNotFound, <<>>, <<Log("error", "Error message", {"exception"})>>, "none")
    ELSE LET results == api.value
         IN  IF Len(results) > 0
             THEN IF LinksOf(results).raised # "none"
                  THEN Found(AnswerNotFound, <<>>,
                             <<Log("error", "Error message", {"exception"})>>, "none")
                  ELSE Found(ContextOf(results), LinksOf(results).value,
                             <<Log("info", "Context found", {"context"})>>, "none")
             ELSE Found(AnswerNotFound, <<>>,
                        <<Log("info", "No answer found", {"query", "response"})>>, "none")

Out(ret, log, calls) == [ret |-> ret, log |-> log, calls |-> calls]

\* a slip in lines 254-262: the engine is checked after the search
querySerpapi_engine_checked_late(query, do_analysis, engine, api, llm) ==
    LET restricted_query == restrict_to_official_sites(query, OFFICIAL_SITES)
        search == <<[call |-> "search", q |-> restricted_query]>>
        found == SearchTry(query, api)
    IN  IF engine \notin Engines THEN Out(Raise("ValueError"), found.log, search)
        ELSE Out(Ret(<<found.context, found.links>>), found.log, search)

\* querySerpapi. The result is the call's return value (the pair of line 292
\* or 294) or exception, the records it logged, and the external calls it
\* made, in order. The query sent is the restricted one.
querySerpapi(query, do_analysis, engine, api, llm) ==
    LET restricted_query == restrict_to_official_sites(query, OFFICIAL_SITES)
        search == <<[call |-> "search", q |-> restricted_query]>>
        invoke == <<[call |-> "llm", q |-> <<query>>]>>
        found == SearchTry(query, api)
    IN  IF engine \notin Engines THEN Out(Raise("ValueError"), <<>>, <<>>)
        ELSE IF found.raised # "none" THEN Out(Raise(found.raised), found.log, search)
        ELSE IF do_analysis
             THEN IF llm.raised # "none"
                  THEN Out(Raise(llm.raised), found.log, search \o invoke)
                  ELSE LET parsed == parse_serp_analysis_output(llm.value, found.links)
                       IN  IF parsed.raised # "none"
                           THEN Out(parsed, found.log, search \o invoke)
                           ELSE Out(Ret(<<parsed.value, found.links>>), found.log,
                                    search \o invoke)
             ELSE Out(Ret(<<found.context, found.links>>), found.log, search)

---------------------------------------------------------------------------
(* web_crawl and what it calls, lines 308-392. *)

\* None, for an attribute that holds a list, and a value in its place
NoList == [none |-> TRUE, val |-> <<>>]
List(v) == [none |-> FALSE, val |-> v]

\* s.endswith(suffix)
PyEndsWith(s, suffix) ==
    /\ Len(suffix) <= Len(s)
    /\ SubSeq(s, Len(s) - Len(suffix) + 1, Len(s)) = suffix

\* the first position of s from i on that holds a character of cs; Len(s) + 1 if none
RECURSIVE FindAny(_, _, _)
FindAny(s, cs, i) ==
    IF i > Len(s) \/ s[i] \in cs THEN i ELSE FindAny(s, cs, i + 1)

\* the characters a URL scheme cannot hold
NotSchemeChar == {":", "/", "?", "#", " ", "[", "]", "<", ">", "(", ")"}

\* urlparse(link): its netloc and path. A scheme is what stands before the
\* first ":"; a netloc follows "//" up to the next "/", "?" or "#"; the path
\* ends at the first "?" or "#".
UrlParse(link) ==
    LET colon == FindAny(link, {":"}, 1)
        hasScheme == /\ colon <= Len(link)
                     /\ colon > 1
                     /\ \A k \in 1..(colon - 1) : link[k] \notin NotSchemeChar
                     /\ link[1] \notin Digit \cup {"+", "-", "."}
        rest == IF hasScheme THEN SubSeq(link, colon + 1, Len(link)) ELSE link
        hasNetloc == Len(rest) >= 2 /\ rest[1] = "/" /\ rest[2] = "/"
        netEnd == IF hasNetloc THEN FindAny(rest, {"/", "?", "#"}, 3) ELSE 1
        afterNet == SubSeq(rest, netEnd, Len(rest))
        pathEnd == FindAny(afterNet, {"?", "#"}, 1)
    IN  [netloc |-> IF hasNetloc THEN SubSeq(rest, 3, netEnd - 1) ELSE <<>>,
         path |-> SubSeq(afterNet, 1, pathEnd - 1)]

\* lines 339-342
CleanExcludedLinks(excluded_links) ==
    {UrlParse(x).netloc \o UrlParse(x).path : x \in excluded_links}

\* a slip in line 346: a link is dropped only when it equals an excluded link
link_filter_exact_match(all_links, excluded_links) ==
    {l \in Range(all_links) : l \notin CleanExcludedLinks(excluded_links)}

\* link_filter, lines 330-348: a set
link_filter(all_links, excluded_links) ==
    {l \in Range(all_links) :
        ~\E x \in CleanExcludedLinks(excluded_links) : PyContains(l, x)}

\* line 375
ExcludedLinkSuffixes ==
    { <<".", "i", "c", "o">>, <<".", "s", "v", "g">>, <<".", "j", "p", "g">>,
      <<".", "p", "n", "g">>, <<".", "j", "p", "e", "g">>, <<".">>,
      <<".", "d", "o", "c", "x">>, <<".", "x", "l", "s">>, <<".", "x", "l", "s", "x">> }

DotPdf == <<".", "p", "d", "f">>

\* a langchain Document
Document(text, source) == [page_content |-> text, metadata |-> [source |-> source]]

\* what a page holds: its markup, and the text Html2TextTransformer makes of it
PageText(url) == <<"x">> \o url \o <<"y">>
PageHtml(url) == <<"<", "p", ">">> \o PageText(url)

\* Html2TextTransformer, line 359: the markup between "<" and ">" is dropped
RECURSIVE Html2Text(_)
Html2Text(h) ==
    IF h = <<>> THEN <<>>
    ELSE IF h[1] = "<"
         THEN LET close == FindAny(h, {">"}, 1)
              IN  Html2Text(SubSeq(h, close + 1, Len(h)))
         ELSE <<h[1]>> \o Html2Text(Tail(h))

\* clean_docs, lines 350-360
clean_docs(docs) ==
    [i \in DOMAIN docs |-> [docs[i] EXCEPT !.page_content = Html2Text(@)]]

\* load_htmls, lines 308-328, when every fetch answers
RECURSIVE load_htmls(_, _)
load_htmls(us, extra_loaders) ==
    IF us = <<>> THEN <<>>
    ELSE LET url == us[1]
             rest == load_htmls(Tail(us), extra_loaders)
         IN  IF PyEndsWith(url, DotPdf)
             THEN IF "pdf" \in extra_loaders
                  THEN <<Document(PageHtml(url), url)>> \o rest
                  ELSE rest
             ELSE <<Document(PageHtml(url), url)>> \o rest

\* the URLs load_htmls fetches: all but the PDFs it skips
Fetches(us, extra_loaders) ==
    {u \in Range(us) : ~PyEndsWith(u, DotPdf) \/ "pdf" \in extra_loaders}

\* lines 378-379: the links left after the suffix and the exclusion filter
CrawlCandidates(input, excluded_config) ==
    link_filter(SelectSeq(input, LAMBDA u : ~\E x \in ExcludedLinkSuffixes : PyEndsWith(u, x)),
                Range(excluded_config))

Crawled(raised, docs, us) == [raised |-> raised, documents |-> docs, urls |-> us]

\* web_crawl(urls=input), lines 362-392. config is what _get_config_info read;
\* order is the order in which the set of line 379 is listed at line 385;
\* fetched tells whether every fetch of load_htmls answered; docs and us are
\* self.documents and self.urls before the call, which are set anew at the end.
web_crawl(input, config, order, fetched, docs, us) ==
    IF CrawlCandidates(input, config.excluded_links) = {}
    THEN Crawled("ValueError", docs, us)
    ELSE LET scraped == SubSeq(order, 1,
                            IF Len(order) < MaxScrapedWebsites
                            THEN Len(order) ELSE MaxScrapedWebsites)
         IN  IF fetched \/ Fetches(scraped, config.extra_loaders) = {}
             THEN Crawled("none",
                          List(clean_docs(load_htmls(scraped, config.extra_loaders))),
                          List(scraped))
             ELSE Crawled("ConnectionError", docs, us)

---------------------------------------------------------------------------
(* get_text_chunks_with_references, lines 394-432. *)

\* RecursiveCharacterTextSplitter on one text: windows of at most size
\* characters, consecutive ones sharing overlap characters, from position st on
RECURSIVE SplitText(_, _, _, _)
SplitText(text, size, overlap, st) ==
    IF text = <<>> THEN <<>>
    ELSE IF st + size - 1 >= Len(text) THEN <<SubSeq(text, st, Len(text))>>
    ELSE <<SubSeq(text, st, st + size - 1)>>
            \o SplitText(text, size, overlap, st + size - overlap)

\* text_splitter.split_documents(docs), line 416: every chunk is a Document
\* with its document's metadata
RECURSIVE split_documents(_, _, _)
split_documents(docs, size, overlap) ==
    IF docs = <<>> THEN <<>>
    ELSE LET pieces == SplitText(docs[1].page_content, size, overlap, 1)
         IN  [i \in DOMAIN pieces |-> [docs[1] EXCEPT !.page_content = pieces[i]]]
                \o split_documents(Tail(docs), size, overlap)

\* What iterating a Document yields. The class defines neither __contains__
\* nor __getitem__, and its __iter__ (that of pydantic's BaseModel) yields a
\* tuple (field name, value) for every field.
DocumentItems(doc) == {<<"tuple", field>> : field \in DOMAIN doc}

\* `key in chunk` for a Document, line 421: Python falls back to iterating
\* the object and comparing key with every item; key is a str, which no
\* tuple equals
KeyInDocument(key, doc) == <<"str", key>> \in DocumentItems(doc)

\* `key in chunk.metadata`, a dict
KeyInMetadata(key, metadata) == metadata[key] # Missing

\* sources = {site: i + 1 for i, site in enumerate(self.urls)}, line 413
SourceIndex(us) == [u \in Range(us) |-> CHOOSE i \in DOMAIN us : us[i] = u]

Unknown == <<"u", "n", "k", "n", "o", "w", "n">>

\* f'[reference:{ref}] {chunk.page_content}\n\n'
Tagged(ref, text) ==
    <<"[">> \o WordLower \o <<":">> \o ref \o <<"]", " ">> \o text \o <<"\n", "\n">>

\* the loop body of lines 419-430
TagChunk(chunk, sources) ==
    IF KeyInDocument("metadata", chunk) /\ KeyInMetadata("source", chunk.metadata)
    THEN LET reference == chunk.metadata.source
         IN  IF reference \in DOMAIN sources
             THEN [chunk EXCEPT !.page_content = Tagged(PyStr(sources[reference]), @)]
             ELSE [chunk EXCEPT !.page_content = Tagged(Unknown, @)]
    ELSE [chunk EXCEPT !.page_content = Tagged(Unknown, @)]

\* get_text_chunks_with_references(docs, chunk_size, chunk_overlap); self_urls
\* and docs are None before the first crawl, and enumerate(None) raises
get_text_chunks_with_references(self_urls, docs, chunk_size, chunk_overlap) ==
    IF self_urls.none \/ docs.none THEN Raise("TypeError")
    ELSE LET sources == SourceIndex(self_urls.val)
             chunks == split_documents(docs.val, chunk_size, chunk_overlap)
         IN  Ret([i \in DOMAIN chunks |-> TagChunk(chunks[i], sources)])

---------------------------------------------------------------------------
(* The vector store of utils/vectordb/vector_db.py, as section 6 of the     *)
(* specification gives it. An index is the set of chunks it holds; a        *)
(* location holds an index or does not exist.                               *)

Absent == [exists |-> FALSE, index |-> {}]
Stored(index) == [exists |-> TRUE, index |-> index]

\* no index loaded yet (the attribute is not set by __init__)
NoStore == [none |-> TRUE, val |-> {}]
Store(index) == [none |-> FALSE, val |-> index]

\* VectorStore.load(location, embeddings) -> handle
load_vdb(location) == Store(location.index)

\* VectorStore.create(chunks, embeddings, location): the index of the chunks,
\* stored at the location when one is given
create_vector_store(chunks, location, given) ==
    [store |-> Store(Range(chunks)),
     disk  |-> IF given THEN Stored(Range(chunks)) ELSE location]

\* VectorStore.update(chunks, embeddings, location) -> handle: the index at
\* the location with the chunks merged into it
update_vdb(chunks, location) ==
    [store |-> Store(location.index \cup Range(chunks)),
     disk  |-> Stored(location.index \cup Range(chunks))]

---------------------------------------------------------------------------
(* create_load_vector_store, lines 434-479, and create_and_save_local,      *)
(* lines 481-521. The result: what was raised, the new self.vector_store    *)
(* and location, and whether the chunks were computed.                      *)

Done(raised, store, location, chunked) ==
    [raised |-> raised, store |-> store, disk |-> location, chunked |-> chunked]

\* a slip in line 453: an update request does not keep the first branch away
create_load_vector_store_ignoring_update(self_urls, docs, store, location, force_reload, update) ==
    LET chunks == get_text_chunks_with_references(self_urls, docs, ChunkSize, ChunkOverlap)
    IN  IF location.exists /\ ~force_reload
        THEN Done("none", load_vdb(location), location, FALSE)
        ELSE IF chunks.raised # "none" THEN Done(chunks.raised, store, location, FALSE)
             ELSE LET made == create_vector_store(chunks.value, location, TRUE)
                  IN  Done("none", made.store, made.disk, TRUE)

create_load_vector_store(self_urls, docs, store, location, force_reload, update) ==
    LET chunks == get_text_chunks_with_references(self_urls, docs, ChunkSize, ChunkOverlap)
    IN  IF location.exists /\ ~force_reload /\ ~update
        THEN Done("none", load_vdb(location), location, FALSE)
        ELSE IF chunks.raised # "none" THEN Done(chunks.raised, store, location, FALSE)
        ELSE IF location.exists /\ update
             THEN LET merged == update_vdb(chunks.value, location)
                  IN  Done("none", merged.store, merged.disk, TRUE)
             ELSE LET made == create_vector_store(chunks.value, location, TRUE)
                  IN  Done("none", made.store, made.disk, TRUE)

\* input_directory and persist_directory are left at their default, None
create_and_save_local(self_urls, docs, store, location, update) ==
    LET chunks == get_text_chunks_with_references(self_urls, docs, ChunkSize, ChunkOverlap)
    IN  IF chunks.raised # "none" THEN Done(chunks.raised, store, location, FALSE)
        ELSE IF update /\ location.exists
             THEN LET merged == update_vdb(chunks.value, location)
                  IN  Done("none", merged.store, merged.disk, TRUE)
             ELSE LET made == create_vector_store(chunks.value, location, location.exists)
                  IN  Done("none", made.store, made.disk, TRUE)

---------------------------------------------------------------------------
(* The part of the state an operation that is not under study leaves at rest. *)

SerpIdle ==
    /\ serp_args = [query |-> "", do_analysis |-> FALSE, engine |-> ""]
    /\ serp_api = Ret(<<>>)
    /\ serp_llm = Ret(<<>>)
    /\ serp_out = Out(Ret(<<>>), <<>>, <<>>)
    /\ serp_op = "idle"

NoCall ==
    [op |-> "none", force_reload |-> FALSE, update |-> FALSE, existed |-> FALSE,
     raised |-> "none", chunked |-> FALSE, docs |-> <<>>, chunks |-> <<>>]

AsstIdle ==
    /\ documents = NoList
    /\ urls = NoList
    /\ vector_store = NoStore
    /\ disk = Absent
    /\ params = [excluded_links |-> <<>>, extra_loaders |-> {}]
    /\ call = NoCall

\* self.memory: None (line 90), or a ConversationSummaryMemory, which is
\* given by the (input, answer) pairs saved into it; init_memory makes one
\* that holds the greeting stub and no pair
NoMemory == [none |-> TRUE, saved |-> <<>>]
Memory(saved) == [none |-> FALSE, saved |-> saved]

\* self.qa_chain = None, line 89
NoChain == [none |-> TRUE, conversational |-> FALSE, retriever |-> {}]

\* the last call of a turn's method: its arguments, what the search API, the
\* LLM and the page fetches did, its result, its log records and its calls
NoTurn ==
    [op |-> "none", args |-> <<>>, api |-> Ret(<<>>), llm |-> Ret(<<>>), fetched |-> TRUE,
     ret |-> Ret(<<>>), log |-> <<>>, calls |-> <<>>]

TurnIdle ==
    /\ memory = NoMemory
    /\ qa_chain = NoChain
    /\ turn = NoTurn

NoFilter == [op |-> "input", all_links |-> <<>>, excluded_links |-> <<>>, ret |-> {}]

FilterIdle == filt = NoFilter

\* lines 121-126 of app.py: the histories of a new session
NewSession == [chat_history |-> <<>>, sources_history |-> <<>>,
               related_queries_history |-> <<>>]

\* the locals of handle_user_input: the question, the branch taken, the
\* reformulated query and the history it was made from, the response of the
\* primary call, and the exception that ended the run, if one did
NoLocals ==
    [user_question |-> "None", method |-> "", reformulated_query |-> "None",
     chat_history |-> <<>>, response |-> [none |-> TRUE, answer |-> <<>>, sources |-> <<>>],
     raised |-> "none"]

AppIdle ==
    /\ session = NewSession
    /\ pc = "idle"
    /\ task = "none"
    /\ locals = NoLocals

RestIdle == TurnIdle /\ FilterIdle /\ AppIdle

CiteIdle ==
    /\ answer = <<>>
    /\ links = <<>>
    /\ source_documents = <<>>
    /\ question_sources_map = <<>>
    /\ cite_op = "input"
    /\ cite_ret = Ret(<<>>)

---------------------------------------------------------------------------
(* The methods of a turn: init_memory (lines 120-134),                      *)
(* reformulate_query_with_history (164-185), basic_call (523-559),          *)
(* set_retrieval_qa_chain (561-600) and search_and_scrape (602-623).        *)

\* the attributes of the object these methods read and write
Object(docs, us, store, location, mem, chain) ==
    [documents |-> docs, urls |-> us, vector_store |-> store, disk |-> location,
     memory |-> mem, qa_chain |-> chain]

\* what a method did: its result, its log records, its external calls, and
\* the object after it
Turned(ret, log, calls, obj) == [ret |-> ret, log |-> log, calls |-> calls, obj |-> obj]

\* Python's None, as an argument or a return value
None == "None"

\* init_memory: a memory that holds the greeting stub only
init_memory == Memory(<<>>)

\* self.memory.save_context(inputs={'input': query}, outputs={'answer': answer})
save_context(mem, input, output) == Memory(Append(mem.saved, <<input, output>>))

\* reformulate_query_with_history(query); llm is what self.llm.invoke did
reformulate_query_with_history(query, llm, obj) ==
    LET mem == IF obj.memory.none THEN init_memory ELSE obj.memory
        after == [obj EXCEPT !.memory = mem]
        invoke == <<[call |-> "llm", q |-> <<query>>, chat_history |-> mem.saved]>>
    IN  IF llm.raised # "none" THEN Turned(Raise(llm.raised), <<>>, invoke, after)
        ELSE Turned(Ret(llm.value),
                    <<Log("info", "Original query", {"query"}),
                      Log("info", "Reformulated query", {"reformulated_query"})>>,
                    invoke, after)

\* the class defines querySerpapi only: the other two search methods are
\* missing attributes, and any other name leaves answer and links unbound
SearchMethodError(search_method) ==
    IF search_method \in {"serper", "openserp"} THEN "AttributeError"
    ELSE "UnboundLocalError"

\* a slip in line 557: the pair saved is that of the query searched with
basic_call_saving_reformulated_query(query, reformulated_query, search_method, search_engine, conversational, api, llm, obj) ==
    LET rq == IF reformulated_query = None THEN query ELSE reformulated_query
        s == querySerpapi(rq, TRUE, search_engine, api, llm)
    IN  IF search_method # "serpapi"
        THEN Turned(Raise(SearchMethodError(search_method)), <<>>, <<>>, obj)
        ELSE IF s.ret.raised # "none" THEN Turned(s.ret, s.log, s.calls, obj)
        ELSE IF conversational /\ obj.memory.none
             THEN Turned(Raise("AttributeError"), s.log, s.calls, obj)
        ELSE Turned(Ret([answer |-> s.ret.value[1], sources |-> s.ret.value[2]]),
                    s.log, s.calls,
                    IF conversational
                    THEN [obj EXCEPT !.memory = save_context(@, rq, s.ret.value[1])]
                    ELSE obj)

\* lines 556-559 of basic_call, s being what the search method did
SaveAndReturn(query, conversational, s, obj) ==
    IF s.ret.raised # "none" THEN Turned(s.ret, s.log, s.calls, obj)
    ELSE IF conversational /\ obj.memory.none
         THEN Turned(Raise("AttributeError"), s.log, s.calls, obj)
    ELSE Turned(Ret([answer |-> s.ret.value[1], sources |-> s.ret.value[2]]),
                s.log, s.calls,
                IF conversational
                THEN [obj EXCEPT !.memory = save_context(@, query, s.ret.value[1])]
                ELSE obj)

\* basic_call(query, reformulated_query, search_method, max_results,
\* search_engine, conversational); api and llm are what the search API and
\* self.llm.invoke did
basic_call(query, reformulated_query, search_method, search_engine, conversational, api, llm, obj) ==
    IF search_method # "serpapi"
    THEN Turned(Raise(SearchMethodError(search_method)), <<>>, <<>>, obj)
    ELSE SaveAndReturn(query, conversational,
                       querySerpapi(IF reformulated_query = None
                                    THEN query ELSE reformulated_query,
                                    TRUE, search_engine, api, llm),
                       obj)

\* the chain set at lines 576-585 or 588-596
Chain(conversational, store) ==
    [none |-> FALSE, conversational |-> conversational, retriever |-> store.val]

\* set_retrieval_qa_chain(conversational): self.vector_store is not an
\* attribute before an index is made (line 566)
set_retrieval_qa_chain(conversational, obj) ==
    IF obj.vector_store.none THEN Turned(Raise("AttributeError"), <<>>, <<>>, obj)
    ELSE Turned(Ret(None), <<>>, <<>>,
                [obj EXCEPT !.memory = IF conversational THEN init_memory ELSE @,
                            !.qa_chain = Chain(conversational, obj.vector_store)])

\* f"No links found for '{query}'. Try again"
NoLinksFound(query) == <<"No links found for '", query, "'. Try again">>

\* a slip in lines 618-623: the retrieval mode is prepared without links too
NoLinksOutcomePreparingRetrieval(query, s, obj) ==
    Turned(Ret([message |-> NoLinksFound(query)]), s.log, s.calls,
           [obj EXCEPT !.memory = init_memory, !.qa_chain = Chain(TRUE, obj.vector_store)])

\* lines 622-623: the else branch of search_and_scrape
NoLinksOutcome(query, s, obj) ==
    Turned(Ret([message |-> NoLinksFound(query)]), s.log, s.calls, obj)

\* the calls of a search that gave links, with the crawl of line 619
CrawlCalls(s) == s.calls \o <<[call |-> "crawl", q |-> s.ret.value[2]]>>

\* line 621, d being what create_and_save_local did after the crawl c
SetChain(s, c, d, obj) ==
    IF d.raised # "none"
    THEN Turned(Raise(d.raised), s.log, CrawlCalls(s),
                [obj EXCEPT !.documents = c.documents, !.urls = c.urls])
    ELSE LET q == set_retrieval_qa_chain(TRUE,
                      [obj EXCEPT !.documents = c.documents, !.urls = c.urls,
                                  !.vector_store = d.store, !.disk = d.disk])
         IN  Turned(q.ret, s.log, CrawlCalls(s), q.obj)

\* lines 620-621, c being what web_crawl did
SaveAndSetChain(s, c, obj) ==
    IF c.raised # "none" THEN Turned(Raise(c.raised), s.log, CrawlCalls(s), obj)
    ELSE SetChain(s, c,
                  create_and_save_local(c.urls, c.documents, obj.vector_store,
                                        obj.disk, FALSE),
                  obj)

\* lines 618-623, s being what the search method did
ScrapeLinks(query, s, order, fetched, config, obj) ==
    IF s.ret.raised # "none" THEN Turned(s.ret, s.log, s.calls, obj)
    ELSE IF Len(s.ret.value[2]) > 0
         THEN SaveAndSetChain(s,
                  web_crawl(s.ret.value[2], config, order, fetched,
                            obj.documents, obj.urls),
                  obj)
         ELSE NoLinksOutcome(query, s, obj)

\* search_and_scrape(query, search_method, max_results, search_engine); api is
\* what the search API did, order and fetched are those of web_crawl
search_and_scrape(query, search_method, search_engine, api, order, fetched, config, obj) ==
    IF search_method # "serpapi"
    THEN Turned(Raise(SearchMethodError(search_method)), <<>>, <<>>, obj)
    ELSE ScrapeLinks(query, querySerpapi(query, FALSE, search_engine, api, Raise("APIError")),
                     order, fetched, config, obj)

---------------------------------------------------------------------------
(* The inputs of the citation parsers. *)

UrlA == <<"a">>
UrlB == <<"b">>
UrlC == <<"d">>
Urls == {UrlA, UrlB, UrlC}

Marker(word, sp, digits) == <<"[">> \o word \o <<":">> \o sp \o digits \o <<"]">>

\* what an answer is put together from: markers in their accepted spellings,
\* near misses of a marker, and plain text (among it a URL's text)
Pieces ==
    { Marker(WordLower, <<>>, <<"0">>),
      Marker(WordLower, <<>>, <<"1">>),
      Marker(WordCapital, <<" ">>, <<"2">>),
      Marker(WordUpper, <<>>, <<"3">>),
      Marker(WordLower, <<" ">>, <<"0", "2">>),
      Marker(WordLower, <<>>, <<"1", "0">>),
      WordLower \o <<":", " ", "z">>,
      Marker(WordLower, <<>>, <<"u", "n", "k", "n", "o", "w", "n">>),
      Marker(WordLower, <<" ", " ">>, <<"1">>),
      <<"[">> \o WordLower \o <<":", "1">>,
      <<"z">>,
      UrlA }

\* what a retrieval answer is put together from: markers with positive
\* numbers, and plain text (among it a URL's text)
RetrievalPieces ==
    { Marker(WordLower, <<>>, <<"1">>),
      Marker(WordLower, <<>>, <<"2">>),
      Marker(WordCapital, <<" ">>, <<"3">>),
      <<"z">>,
      UrlA }

RECURSIVE TextsOf(_, _)
TextsOf(P, n) ==
    IF n = 0 THEN {<<>>}
    ELSE LET shorter == TextsOf(P, n - 1)
         IN  shorter \cup {t \o p : t \in shorter, p \in P}

RECURSIVE SeqsUpTo(_, _)
SeqsUpTo(S, n) ==
    IF n = 0 THEN {<<>>}
    ELSE LET shorter == SeqsUpTo(S, n - 1)
         IN  shorter \cup {Append(q, x) : q \in shorter, x \in S}

IsInjective(q) == \A i, j \in DOMAIN q : i # j => q[i] # q[j]

\* link lists without repetition, as web_crawl and the search engine give them
LinkLists == {q \in SeqsUpTo(Urls, MaxLinks) : IsInjective(q)}

---------------------------------------------------------------------------
(* The citation parsers as state machines: an answer and a link list are    *)
(* given, and the parser is applied to them.                                *)

CiteInit ==
    /\ RestIdle
    /\ SerpIdle
    /\ AsstIdle
    /\ answer \in TextsOf(Pieces, MaxPieces)
    /\ links \in LinkLists
    /\ source_documents = <<>>
    /\ question_sources_map = <<>>
    /\ cite_op = "input"
    /\ cite_ret = Ret(<<>>)

\* basic mode: querySerpapi, line 292
ParseSerpAnalysisOutput ==
    /\ cite_op = "input"
    /\ cite_op' = "parse_serp_analysis_output"
    /\ cite_ret' = parse_serp_analysis_output(answer, links)
    /\ UNCHANGED <<answer, links, source_documents, question_sources_map>>
    /\ UNCHANGED <<serpVars, asstVars, restVars>>

CiteNext == ParseSerpAnalysisOutput

SpecCite == CiteInit /\ [][CiteNext]_vars

RemapInit ==
    /\ RestIdle
    /\ SerpIdle
    /\ AsstIdle
    /\ answer \in TextsOf(RetrievalPieces, MaxPieces)
    /\ links \in LinkLists
    /\ source_documents = <<>>
    /\ question_sources_map = <<>>
    /\ cite_op = "input"
    /\ cite_ret = Ret(<<>>)

\* retrieval mode: retrieval_call, line 675. The retrieved documents come
\* from the crawl's URLs (self.urls).
ParseRetrievalOutput ==
    /\ cite_op = "input"
    /\ \E docs \in SeqsUpTo(Range(links), MaxSourceDocs) :
         \E order \in SetIterations(Range(docs)) :
            /\ source_documents' = docs
            /\ question_sources_map' =
                 IF parse_serp_analysis_output(answer, links).raised = "none"
                 THEN SourcesMap(order) ELSE <<>>
            /\ cite_ret' = parse_retrieval_output(answer, links, order)
    /\ cite_op' = "parse_retrieval_output"
    /\ UNCHANGED <<answer, links>>
    /\ UNCHANGED <<serpVars, asstVars, restVars>>

RemapNext == ParseRetrievalOutput

SpecRemap == RemapInit /\ [][RemapNext]_vars

---------------------------------------------------------------------------
(* querySerpapi as a state machine: one call, with what the search API and  *)
(* the LLM answer to it.                                                    *)

Queries == {"q1", "q2"}

Titles == { <<"t">>, Marker(WordLower, <<>>, <<"2">>), <<"[">> \o WordLower }
Snippets == { Missing, <<"1", "]">> }
ResultLinks == { Missing, UrlA, UrlB }

\* the organic results a response can hold
Results == [title : Titles, snippet : Snippets, link : ResultLinks]

\* what search.get_dict() can do
ApiOutcomes == {Raise("ConnectionError")} \cup {Ret(rs) : rs \in SeqsUpTo(Results, MaxResults)}

\* what self.llm.invoke can do
LlmOutcomes == {Raise("APIError"), Ret(Marker(WordLower, <<>>, <<"1">>) \o <<"z">>)}

SerpInit ==
    /\ RestIdle
    /\ CiteIdle
    /\ AsstIdle
    /\ SerpIdle

\* A call of querySerpapi. The search API answers only when the engine is let
\* through, the LLM only when the analysis is asked for.
QuerySerpapi ==
    /\ serp_op = "idle"
    /\ \E query \in Queries, do_analysis \in BOOLEAN, engine \in Engines \cup {"yahoo"} :
         \E api \in ApiOutcomes, llm \in LlmOutcomes :
            /\ engine \notin Engines => api = Ret(<<>>)
            /\ (engine \notin Engines \/ ~do_analysis) => llm = Raise("APIError")
            /\ serp_args' = [query |-> query, do_analysis |-> do_analysis,
                             engine |-> engine]
            /\ serp_api' = api
            /\ serp_llm' = llm
            /\ serp_out' = querySerpapi(query, do_analysis, engine, api, llm)
    /\ serp_op' = "querySerpapi"
    /\ UNCHANGED <<citeVars, asstVars, restVars>>

SerpNext == QuerySerpapi

SpecSerp == SerpInit /\ [][SerpNext]_vars

---------------------------------------------------------------------------
(* link_filter as a state machine: candidate links and excluded entries are *)
(* given, and the filter is applied to them.                                *)

Scheme == <<"s", ":", "/", "/">>

\* candidate links
FilterLinks ==
    { Scheme \o UrlA \o <<"/", "p">>,
      Scheme \o UrlB \o <<"/", "p", "?", "q">>,
      UrlA,
      Scheme \o UrlC }

\* excluded entries: with and without scheme, netloc, query and fragment
EntryFull == Scheme \o UrlA \o <<"/", "p", "?", "q", "#", "f">>
EntryBare == UrlA
EntryNetloc == <<"/", "/">> \o UrlB
EntryPath == UrlB \o <<"/", "p", "#", "f">>
EntryScheme == <<"s", ":">>
EntrySlash == Scheme \o UrlC \o <<"/">>

ExcludedEntries == {EntryFull, EntryBare, EntryNetloc, EntryPath, EntryScheme, EntrySlash}

FilterInit ==
    /\ CiteIdle
    /\ SerpIdle
    /\ AsstIdle
    /\ TurnIdle
    /\ AppIdle
    /\ \E all_links \in SeqsUpTo(FilterLinks, MaxLinks), excluded \in SUBSET ExcludedEntries :
          filt = [NoFilter EXCEPT !.all_links = all_links, !.excluded_links = excluded]

\* link_filter(all_links, excluded_links)
LinkFilter ==
    /\ filt.op = "input"
    /\ filt' = [filt EXCEPT !.op = "link_filter",
                            !.ret = link_filter(filt.all_links, filt.excluded_links)]
    /\ UNCHANGED <<citeVars, serpVars, asstVars, turnVars, appVars>>

FilterNext == LinkFilter

SpecFilter == FilterInit /\ [][FilterNext]_vars

---------------------------------------------------------------------------
(* The SearchAssistant object as a state machine: crawls, chunking and the  *)
(* calls that create, load or update the index, in any order.               *)

UrlIco == UrlA \o <<".", "i", "c", "o">>
UrlPdf == UrlB \o DotPdf

\* the links a crawl can be asked for
CrawlLinks == {UrlA, UrlB, UrlIco, UrlPdf}

\* a chunk an earlier run of the program left in the index
OldChunk == Document(Tagged(Unknown, <<"o">>), UrlC)

\* the documents the chunker can be handed: pages of known and of unknown
\* sources, and a document without a source
DocChoices ==
    {Document(PageText(u), u) : u \in {UrlA, UrlB, UrlC}}
        \cup {Document(<<"x", "y">>, Missing)}

\* the link lists given to web_crawl: line 379 makes a set of the list, so one
\* list stands for all the lists of the same links
CrawlInputs ==
    {CHOOSE q \in SetIterations(S) : TRUE :
        S \in {T \in SUBSET CrawlLinks : Cardinality(T) <= MaxLinks}}

\* lists of distinct documents
DocLists == {q \in SeqsUpTo(DocChoices, MaxDocs) : IsInjective(q)}

Init ==
    /\ RestIdle
    /\ CiteIdle
    /\ SerpIdle
    /\ documents = NoList
    /\ urls = NoList
    /\ vector_store = NoStore
    /\ disk \in {Absent, Stored({OldChunk})}
    /\ params \in { [excluded_links |-> <<>>, extra_loaders |-> {}],
                    [excluded_links |-> <<UrlA>>, extra_loaders |-> {"pdf"}] }
    /\ call = NoCall

\* web_crawl(urls=input) with the links of the caller's choice
WebCrawl ==
    /\ \E input \in CrawlInputs, fetched \in BOOLEAN :
          \E order \in SetIterations(CrawlCandidates(input, params.excluded_links)) :
             LET r == web_crawl(input, params, order, fetched, documents, urls)
             IN  /\ documents' = r.documents
                 /\ urls' = r.urls
                 /\ call' = [NoCall EXCEPT !.op = "web_crawl", !.raised = r.raised]
    /\ UNCHANGED <<vector_store, disk, params>>
    /\ UNCHANGED <<citeVars, serpVars, restVars>>

\* get_text_chunks_with_references(docs, chunk_size, chunk_overlap), called
\* with documents of the caller's choice
GetTextChunksWithReferences ==
    /\ \E docs \in DocLists :
          LET r == get_text_chunks_with_references(urls, List(docs), ChunkSize, ChunkOverlap)
          IN  call' = [NoCall EXCEPT !.op = "get_text_chunks_with_references",
                                     !.raised = r.raised, !.chunked = TRUE,
                                     !.docs = docs, !.chunks = r.value]
    /\ UNCHANGED <<documents, urls, vector_store, disk, params>>
    /\ UNCHANGED <<citeVars, serpVars, restVars>>

CreateLoadVectorStore ==
    /\ \E force_reload, update \in BOOLEAN :
          LET r == create_load_vector_store(urls, documents, vector_store, disk,
                                            force_reload, update)
          IN  /\ vector_store' = r.store
              /\ disk' = r.disk
              /\ call' = [NoCall EXCEPT !.op = "create_load_vector_store",
                                        !.force_reload = force_reload, !.update = update,
                                        !.existed = disk.exists, !.raised = r.raised,
                                        !.chunked = r.chunked]
    /\ UNCHANGED <<documents, urls, params>>
    /\ UNCHANGED <<citeVars, serpVars, restVars>>

CreateAndSaveLocal ==
    /\ \E update \in BOOLEAN :
          LET r == create_and_save_local(urls, documents, vector_store, disk, update)
          IN  /\ vector_store' = r.store
              /\ disk' = r.disk
              /\ call' = [NoCall EXCEPT !.op = "create_and_save_local",
                                        !.update = update,
                                        !.existed = disk.exists, !.raised = r.raised,
                                        !.chunked = r.chunked]
    /\ UNCHANGED <<documents, urls, params>>
    /\ UNCHANGED <<citeVars, serpVars, restVars>>

Next ==
    \/ WebCrawl
    \/ GetTextChunksWithReferences
    \/ CreateLoadVectorStore
    \/ CreateAndSaveLocal

Spec == Init /\ [][Next]_vars

---------------------------------------------------------------------------
(* The turns of a SearchAssistant object as a state machine: the memory is  *)
(* reset, a query is reformulated, answered by basic_call, or searched and  *)
(* scraped, in any order.                                                   *)

\* the link lists a search of a turn can find
TurnLinkLists == {q \in {<<>>, <<UrlA>>, <<UrlIco>>, <<UrlA, UrlB>>} : Len(q) <= MaxResults}

TurnResult(link) == [title |-> <<"t">>, snippet |-> Missing, link |-> link]

TurnApiOutcomes ==
    {Raise("ConnectionError")}
        \cup {Ret([i \in DOMAIN q |-> TurnResult(q[i])]) : q \in TurnLinkLists}

SearchMethods == {"serpapi", "serper"}
SearchEngines == {"google", "yahoo"}

\* what self.llm.invoke can do when it is asked to reformulate
ReformulateOutcomes == {Raise("APIError"), Ret("r1")}

TheObject == Object(documents, urls, vector_store, disk, memory, qa_chain)

\* the attributes after a method has run
ObjectBecomes(obj) ==
    /\ documents' = obj.documents
    /\ urls' = obj.urls
    /\ vector_store' = obj.vector_store
    /\ disk' = obj.disk
    /\ memory' = obj.memory
    /\ qa_chain' = obj.qa_chain

\* the search API is asked only by a known method with a known engine
SearchAsked(search_method, search_engine) ==
    search_method = "serpapi" /\ search_engine \in Engines

TurnInit ==
    /\ CiteIdle
    /\ SerpIdle
    /\ FilterIdle
    /\ AppIdle
    /\ TurnIdle
    /\ documents = NoList
    /\ urls = NoList
    /\ vector_store = NoStore
    /\ disk = Absent
    /\ params \in { [excluded_links |-> <<>>, extra_loaders |-> {}],
                    [excluded_links |-> <<UrlA>>, extra_loaders |-> {"pdf"}] }
    /\ call = NoCall

\* init_memory(), as the reset of the conversation calls it
InitMemory ==
    /\ memory' = init_memory
    /\ turn' = [NoTurn EXCEPT !.op = "init_memory"]
    /\ UNCHANGED <<documents, urls, vector_store, disk, params, call, qa_chain>>
    /\ UNCHANGED <<citeVars, serpVars, filterVars, appVars>>

ReformulateQueryWithHistory ==
    /\ \E query \in Queries, llm \in ReformulateOutcomes :
          \E r \in {reformulate_query_with_history(query, llm, TheObject)} :
              /\ ObjectBecomes(r.obj)
              /\ turn' = [NoTurn EXCEPT !.op = "reformulate_query_with_history",
                                        !.args = [query |-> query], !.llm = llm,
                                        !.ret = r.ret, !.log = r.log, !.calls = r.calls]
    /\ UNCHANGED <<params, call>>
    /\ UNCHANGED <<citeVars, serpVars, filterVars, appVars>>

BasicCall ==
    /\ Len(memory.saved) < MaxSaved
    /\ \E query \in Queries, reformulated_query \in {None, "r1"},
          search_method \in SearchMethods, search_engine \in SearchEngines,
          conversational \in BOOLEAN, api \in TurnApiOutcomes, llm \in LlmOutcomes :
          /\ ~SearchAsked(search_method, search_engine) =>
                api = Ret(<<>>) /\ llm = Raise("APIError")
          /\ \E r \in {basic_call(query, reformulated_query, search_method, search_engine,
                                 conversational, api, llm, TheObject)} :
              /\ ObjectBecomes(r.obj)
              /\ turn' = [NoTurn EXCEPT !.op = "basic_call",
                                        !.args = [query |-> query,
                                                  reformulated_query |-> reformulated_query,
                                                  search_method |-> search_method,
                                                  search_engine |-> search_engine,
                                                  conversational |-> conversational],
                                        !.api = api, !.llm = llm,
                                        !.ret = r.ret, !.log = r.log, !.calls = r.calls]
    /\ UNCHANGED <<params, call>>
    /\ UNCHANGED <<citeVars, serpVars, filterVars, appVars>>

SearchAndScrape ==
    /\ \E query \in Queries, search_method \in SearchMethods,
          search_engine \in SearchEngines, api \in TurnApiOutcomes, fetched \in BOOLEAN :
          /\ ~SearchAsked(search_method, search_engine) => api = Ret(<<>>)
          /\ \E order \in SetIterations(CrawlCandidates(SearchTry(query, api).links,
                                                        params.excluded_links)) :
                /\ order = <<>> => fetched
                /\ \E r \in {search_and_scrape(query, search_method, search_engine, api,
                                               order, fetched, params, TheObject)} :
                      /\ ObjectBecomes(r.obj)
                      /\ turn' = [NoTurn EXCEPT !.op = "search_and_scrape",
                                                !.args = [query |-> query,
                                                          search_method |-> search_method,
                                                          search_engine |-> search_engine],
                                                !.api = api, !.fetched = fetched,
                                                !.ret = r.ret, !.log = r.log,
                                                !.calls = r.calls]
    /\ UNCHANGED <<params, call>>
    /\ UNCHANGED <<citeVars, serpVars, filterVars, appVars>>

TurnNext ==
    \/ InitMemory
    \/ ReformulateQueryWithHistory
    \/ BasicCall
    \/ SearchAndScrape

SpecTurn == TurnInit /\ [][TurnNext]_vars

---------------------------------------------------------------------------
(* streamlit/app.py as a state machine. Every interaction of the user runs  *)
(* the script (main) from its start; handle_user_input gives the related-   *)
(* questions call to an executor thread and makes the primary call itself.  *)
(* pc is where the script run stands: "idle" between runs, "rerun" after    *)
(* st.rerun(), then the lines of handle_user_input.                         *)

Questions == {"q1", "q2"}

\* what get_relevant_queries returns
RelatedQueries == <<"related">>

\* line 175 of app.py: every run of the script makes a new SearchAssistant
NewAssistant ==
    /\ memory' = NoMemory
    /\ qa_chain' = NoChain
    /\ documents' = NoList
    /\ urls' = NoList
    /\ vector_store' = NoStore

AppInit ==
    /\ CiteIdle
    /\ SerpIdle
    /\ FilterIdle
    /\ AsstIdle
    /\ TurnIdle
    /\ AppIdle

\* a run of main without a question and without the reset button: lines
\* 117-206, handle_user_input(None) renders the histories
RunWithoutInput ==
    /\ pc \in {"idle", "rerun"}
    /\ NewAssistant
    /\ pc' = "idle"
    /\ task' = "none"
    /\ locals' = NoLocals
    /\ UNCHANGED <<session, turn, disk, params, call>>
    /\ UNCHANGED <<citeVars, serpVars, filterVars>>

\* a run of main with the reset button pressed: lines 195-201
ResetConversation ==
    /\ pc = "idle"
    /\ session' = NewSession
    /\ memory' = init_memory
    /\ qa_chain' = NoChain
    /\ documents' = NoList
    /\ urls' = NoList
    /\ vector_store' = NoStore
    /\ pc' = "rerun"
    /\ task' = "none"
    /\ locals' = NoLocals
    /\ UNCHANGED <<turn, disk, params, call>>
    /\ UNCHANGED <<citeVars, serpVars, filterVars>>

\* a run of main with a question: lines 117-206 up to line 39 or 49; line 178
\* sets the method to 'basic_query' in every run
RunWithQuestion ==
    /\ pc = "idle"
    /\ Len(session.chat_history) < 2 * MaxTurns
    /\ NewAssistant
    /\ \E user_question \in Questions :
          \E method \in {"basic_query"} :
             /\ locals' = [NoLocals EXCEPT !.user_question = user_question,
                                           !.method = method]
             /\ pc' = IF method = "rag_query" THEN "submit" ELSE "reformulate"
    /\ task' = "none"
    /\ UNCHANGED <<session, turn, disk, params, call>>
    /\ UNCHANGED <<citeVars, serpVars, filterVars>>

\* an exception leaves handle_user_input and ends the script run
RunEndsWith(exception) ==
    /\ locals' = [locals EXCEPT !.raised = exception]
    /\ pc' = "idle"

\* line 49
Reformulate ==
    /\ pc = "reformulate"
    /\ \E llm \in ReformulateOutcomes :
          \E r \in {reformulate_query_with_history(locals.user_question, llm, TheObject)} :
             /\ memory' = r.obj.memory
             /\ IF r.ret.raised # "none" THEN RunEndsWith(r.ret.raised)
                ELSE /\ locals' = [locals EXCEPT !.reformulated_query = r.ret.value,
                                                 !.chat_history = r.calls[1].chat_history]
                     /\ pc' = "submit"
    /\ UNCHANGED <<session, task, turn, qa_chain>>
    /\ UNCHANGED <<citeVars, serpVars, filterVars, asstVars>>

\* lines 40-44 and 50-53: the task is submitted, and the script stands at the
\* end of the with statement, where the executor is shut down with wait=True
Submit ==
    /\ pc = "submit"
    /\ task' = "running"
    /\ pc' = "with_exit"
    /\ UNCHANGED <<session, locals, turn, memory, qa_chain>>
    /\ UNCHANGED <<citeVars, serpVars, filterVars, asstVars>>

\* the executor thread: get_relevant_queries returns
TaskReturns ==
    /\ task = "running"
    /\ task' = "done"
    /\ UNCHANGED <<session, pc, locals, turn, memory, qa_chain>>
    /\ UNCHANGED <<citeVars, serpVars, filterVars, asstVars>>

\* the executor thread: get_relevant_queries raises
TaskRaises ==
    /\ task = "running"
    /\ task' = "failed"
    /\ UNCHANGED <<session, pc, locals, turn, memory, qa_chain>>
    /\ UNCHANGED <<citeVars, serpVars, filterVars, asstVars>>

\* the with statement is left when the executor has no running task
ExitWith ==
    /\ pc = "with_exit"
    /\ task # "running"
    /\ pc' = "primary"
    /\ UNCHANGED <<session, task, locals, turn, memory, qa_chain>>
    /\ UNCHANGED <<citeVars, serpVars, filterVars, asstVars>>

\* retrieval_call(query), lines 664-676, on an object without a chain
retrieval_call(query, obj) ==
    IF obj.qa_chain.none THEN Turned(Raise("AttributeError"), <<>>, <<>>, obj)
    ELSE Turned(Ret([answer |-> <<>>, source_documents |-> <<>>]), <<>>, <<>>, obj)

\* lines 45-46 and 54-62: the primary call
Primary ==
    /\ pc = "primary"
    /\ \E api \in TurnApiOutcomes, llm \in LlmOutcomes :
          /\ locals.method = "rag_query" => api = Ret(<<>>) /\ llm = Raise("APIError")
          /\ \E r \in {IF locals.method = "rag_query"
                       THEN retrieval_call(locals.user_question, TheObject)
                       ELSE basic_call(locals.user_question, locals.reformulated_query,
                                       "serpapi", "google", TRUE, api, llm, TheObject)} :
                /\ memory' = r.obj.memory
                /\ IF r.ret.raised # "none" THEN RunEndsWith(r.ret.raised)
                   ELSE /\ locals' = [locals EXCEPT !.response =
                                            [none |-> FALSE, answer |-> r.ret.value.answer,
                                             sources |-> r.ret.value.sources]]
                        /\ pc' = "consume"
    /\ UNCHANGED <<session, task, turn, qa_chain>>
    /\ UNCHANGED <<citeVars, serpVars, filterVars, asstVars>>

\* a slip in lines 47 and 63: the entry of the related questions is made
\* before the result of the task is asked for
ConsumeAppendingBeforeResult ==
    /\ pc = "consume"
    /\ task # "running"
    /\ session' = [session EXCEPT !.related_queries_history =
                                      Append(@, IF task = "failed" THEN <<>>
                                                ELSE RelatedQueries)]
    /\ IF task = "failed"
       THEN RunEndsWith("Exception")
       ELSE /\ pc' = "append"
            /\ UNCHANGED locals
    /\ UNCHANGED <<task, turn, memory, qa_chain>>
    /\ UNCHANGED <<citeVars, serpVars, filterVars, asstVars>>

\* lines 47 and 63: related_querys_future.result() returns what the task
\* returned, or raises what it raised
Consume ==
    /\ pc = "consume"
    /\ task # "running"
    /\ IF task = "failed"
       THEN /\ RunEndsWith("Exception")
            /\ UNCHANGED session
       ELSE /\ session' = [session EXCEPT !.related_queries_history =
                                              Append(@, RelatedQueries)]
            /\ pc' = "append"
            /\ UNCHANGED locals
    /\ UNCHANGED <<task, turn, memory, qa_chain>>
    /\ UNCHANGED <<citeVars, serpVars, filterVars, asstVars>>

\* lines 64-108: the turn is appended to the histories and they are rendered
AppendAndRender ==
    /\ pc = "append"
    /\ session' = [session EXCEPT
                      !.chat_history = @ \o <<locals.user_question, locals.response.answer>>,
                      !.sources_history = Append(@, Range(locals.response.sources))]
    /\ pc' = "idle"
    /\ UNCHANGED <<task, locals, turn, memory, qa_chain>>
    /\ UNCHANGED <<citeVars, serpVars, filterVars, asstVars>>

AppNext ==
    \/ RunWithoutInput
    \/ ResetConversation
    \/ RunWithQuestion
    \/ Reformulate
    \/ Submit
    \/ TaskReturns
    \/ TaskRaises
    \/ ExitWith
    \/ Primary
    \/ Consume
    \/ AppendAndRender

SpecApp == AppInit /\ [][AppNext]_vars

---------------------------------------------------------------------------
(* What the citation claims speak of, stated on the text itself. *)

\* the position of the first "]" after p, 0 when there is none
CloseAfter(s, p) ==
    IF \E q \in (p + 1)..Len(s) : s[q] = "]"
    THEN CHOOSE q \in (p + 1)..Len(s) :
            s[q] = "]" /\ \A r \in (p + 1)..(q - 1) : s[r] # "]"
    ELSE 0

\* the digits of a marker's body "reference:" [" "] digits, in any letter case;
\* <<>> when t is no such body
BodyDigits(t) ==
    LET w == Len(WordLower)
        rest == SubSeq(t, w + 2, Len(t))
        d == IF rest # <<>> /\ rest[1] = " " THEN Tail(rest) ELSE rest
    IN  IF /\ Len(t) >= w + 2
           /\ [k \in 1..w |-> Lower(t[k])] = WordLower
           /\ t[w + 1] = ":"
           /\ \A k \in DOMAIN d : d[k] \in Digit
        THEN d ELSE <<>>

MarkerDigits(s, p) ==
    IF p \in DOMAIN s /\ s[p] = "[" /\ CloseAfter(s, p) # 0
    THEN BodyDigits(SubSeq(s, p + 1, CloseAfter(s, p) - 1)) ELSE <<>>

\* a marker [reference:n] starts at position p of s
MarkerAt(s, p) == MarkerDigits(s, p) # <<>>
MarkerNumber(s, p) == PyInt(MarkerDigits(s, p))
MarkerNumbers(s) == {MarkerNumber(s, p) : p \in {q \in DOMAIN s : MarkerAt(s, q)}}
InMarker(s, i) == \E p \in 1..i : MarkerAt(s, p) /\ i <= CloseAfter(s, p)

\* every way a marker n can be rendered
AnyRendering(n, lnks) == {DeadLink(n)} \cup {RenderedCitation(n, l) : l \in Range(lnks)}

\* the renderings a claim admits for a marker n: "inrange" fixes the markers
\* with 1 <= n <= |links|, "dead" those with n > |links|, "all" both and
\* makes every other marker a dead link
Admitted(mode, n, lnks) ==
    IF n \in 1..Len(lnks) /\ mode \in {"inrange", "all"} THEN {RenderedCitation(n, lnks[n])}
    ELSE IF n > Len(lnks) /\ mode \in {"dead", "all"} THEN {DeadLink(n)}
    ELSE IF mode = "all" THEN {DeadLink(n)}
    ELSE AnyRendering(n, lnks)

\* o from position j on is s from position i on with every marker replaced by
\* an admitted rendering and every other character kept
RECURSIVE Conforms(_, _, _, _, _, _)
Conforms(s, i, o, j, lnks, mode) ==
    IF i > Len(s) THEN j = Len(o) + 1
    ELSE IF MarkerAt(s, i)
         THEN \E r \in Admitted(mode, MarkerNumber(s, i), lnks) :
                 /\ OccursAt(o, r, j)
                 /\ Conforms(s, CloseAfter(s, i) + 1, o, j + Len(r), lnks, mode)
         ELSE /\ HasAt(o, j, s[i])
              /\ Conforms(s, i + 1, o, j + 1, lnks, mode)

Linkified == cite_op = "parse_serp_analysis_output"

(* C1: linkify returns the answer with every marker [reference:n],          *)
(* 1 <= n <= |links|, in any letter case and with at most one space after   *)
(* the colon, replaced by [<sup>n</sup>](links[n-1]) and every character    *)
(* outside a marker unchanged; a text without a marker (also one with       *)
(* bracket-less "reference: ..." or [reference:unknown]) is returned as is. *)
C1_LinkifyReplacesMarkers ==
    Linkified =>
        /\ MarkerNumbers(answer) \subseteq 1..Len(links) => cite_ret.raised = "none"
        /\ cite_ret.raised = "none" =>
              Conforms(answer, 1, cite_ret.value, 1, links, "inrange")
        /\ MarkerNumbers(answer) = {} => cite_ret = Ret(answer)

\* a marker in range next to plain text has been replaced
C1_Witness ==
    /\ Linkified
    /\ cite_ret.raised = "none"
    /\ cite_ret.value # answer
    /\ \E p \in DOMAIN answer :
          MarkerAt(answer, p) /\ MarkerNumber(answer, p) \in 1..Len(links)
    /\ \E i \in DOMAIN answer : ~InMarker(answer, i)

(* C4: a marker whose number n is greater than the number of links is       *)
(* rendered as the dead link [<sup>n</sup>](#), and no exception is raised  *)
(* for it.                                                                  *)
C4_DeadLinkBeyondRange ==
    Linkified =>
        /\ (\A n \in MarkerNumbers(answer) : n > Len(links)) => cite_ret.raised = "none"
        /\ cite_ret.raised = "none" =>
              Conforms(answer, 1, cite_ret.value, 1, links, "dead")

\* a marker beyond a non-empty link list has been rendered
C4_Witness ==
    /\ Linkified
    /\ cite_ret.raised = "none"
    /\ links # <<>>
    /\ \E n \in MarkerNumbers(answer) :
          n > Len(links) /\ PyContains(cite_ret.value, DeadLink(n))

Remapped == cite_op = "parse_retrieval_output"

\* the rank of u among the sources of the documents in order of first appearance
FirstAppearance(docs, u) ==
    Cardinality({docs[i] : i \in {j \in DOMAIN docs :
                                    \E k \in DOMAIN docs : docs[k] = u /\ j <= k
                                       /\ \A m \in 1..(k - 1) : docs[m] # u}})

(* C2: every used source gets the compact number of its first appearance in *)
(* the list of source documents: each citation of a used source carries     *)
(* that number after the remapping, on every run.                           *)
C2_CompactByFirstAppearance ==
    (Remapped /\ cite_ret.raised = "none") =>
        \A i \in DOMAIN links :
           (/\ links[i] \in Range(source_documents)
            /\ PyContains(parse_serp_analysis_output(answer, links).value,
                          RenderedCitation(i, links[i])))
              => /\ question_sources_map[links[i]]
                       = FirstAppearance(source_documents, links[i])
                 /\ PyContains(cite_ret.value,
                               RenderedCitation(FirstAppearance(source_documents, links[i]),
                                                links[i]))

(* C3: the remapper completes without raising for every answer and every    *)
(* set of used sources among the crawl URLs, and leaves a citation of a URL *)
(* that is not a used source as it was rendered.                            *)
C3_RemapNeverRaises ==
    Remapped =>
        /\ cite_ret.raised = "none"
        /\ \A i \in DOMAIN links :
              (/\ links[i] \notin Range(source_documents)
               /\ PyContains(parse_serp_analysis_output(answer, links).value,
                             RenderedCitation(i, links[i])))
                 => PyContains(cite_ret.value, RenderedCitation(i, links[i]))

---------------------------------------------------------------------------
(* What the search claims speak of. *)

\* the numbers of the markers of s from position p on, in order
RECURSIVE MarkerList(_, _)
MarkerList(s, p) ==
    IF p > Len(s) THEN <<>>
    ELSE IF MarkerAt(s, p)
         THEN <<MarkerNumber(s, p)>> \o MarkerList(s, CloseAfter(s, p) + 1)
         ELSE MarkerList(s, p + 1)

OneTo(n) == [i \in 1..n |-> i]

TextOrEmpty(t) == IF t = Missing THEN <<>> ELSE t

\* a search without analysis that was answered by a non-empty list of results
\* that all have a link
SearchedResults ==
    /\ serp_op = "querySerpapi"
    /\ serp_args.engine \in Engines
    /\ ~serp_args.do_analysis
    /\ serp_api.raised = "none"
    /\ serp_api.value # <<>>
    /\ \A i \in DOMAIN serp_api.value : serp_api.value[i].link # Missing

\* the context is the results joined by blank lines, the i-th under the marker
\* i (counted from 1), and the links are the results' links in their order
ContextIsNumberedJoin ==
    LET R == serp_api.value
    IN  /\ serp_out.ret.raised = "none"
        /\ serp_out.ret.value[1] =
             PyJoin(<<"\n", "\n">>,
                    [i \in DOMAIN R |->
                        Marker(WordLower, <<>>, PyStr(i)) \o <<" ">>
                           \o TextOrEmpty(R[i].title) \o <<":", " ">>
                           \o TextOrEmpty(R[i].snippet)])
        /\ serp_out.ret.value[2] = [i \in DOMAIN R |-> R[i].link]

NoBracketIn(t) == \A k \in DOMAIN t : t[k] # "["

(* C5 as stated: for every non-empty result list R the context is the       *)
(* results joined by blank lines, the i-th prefixed [reference:i+1], so it  *)
(* carries exactly |R| markers numbered 1..|R| in order, and the link list  *)
(* has the same length and order.                                           *)
C5_ExactlyOneMarkerPerResult ==
    SearchedResults =>
        /\ ContextIsNumberedJoin
        /\ MarkerList(serp_out.ret.value[1], 1) = OneTo(Len(serp_api.value))

(* C5 as amended: the context is that join and the links are the results'   *)
(* links in order; the markers of the context are exactly 1..|R| in order   *)
(* when no title and no snippet contains a "[" (titles and snippets are     *)
(* copied as they are, and what they hold can read as a marker).            *)
C5_NumberedJoin ==
    SearchedResults =>
        /\ ContextIsNumberedJoin
        /\ (\A i \in DOMAIN serp_api.value :
               /\ NoBracketIn(TextOrEmpty(serp_api.value[i].title))
               /\ NoBracketIn(TextOrEmpty(serp_api.value[i].snippet)))
             => MarkerList(serp_out.ret.value[1], 1) = OneTo(Len(serp_api.value))

\* two results with different links and plain titles have been formatted
C5_Witness ==
    /\ SearchedResults
    /\ Len(serp_api.value) >= 2
    /\ serp_api.value[1].link # serp_api.value[2].link
    /\ \A i \in DOMAIN serp_api.value : NoBracketIn(serp_api.value[i].title)
    /\ MarkerList(serp_out.ret.value[1], 1) = OneTo(Len(serp_api.value))
    /\ Len(serp_out.ret.value[2]) = Len(serp_api.value)

\* a search without analysis, with an engine that is let through
SearchedPlain ==
    /\ serp_op = "querySerpapi"
    /\ serp_args.engine \in Engines
    /\ ~serp_args.do_analysis

\* the search call raised, a result has no link, or there is no result
SearchFailed ==
    \/ serp_api.raised # "none"
    \/ serp_api.value = <<>>
    \/ \E i \in DOMAIN serp_api.value : serp_api.value[i].link = Missing

(* C10: a search without analysis whose API call raises, whose response     *)
(* cannot be parsed or whose result set is empty returns 'Answer not found' *)
(* with an empty link list and raises nothing; the link list is empty       *)
(* exactly when the context is that sentinel.                               *)
C10_SentinelOnFailure ==
    SearchedPlain =>
        /\ serp_out.ret.raised = "none"
        /\ SearchFailed => serp_out.ret.value = <<AnswerNotFound, <<>>>>
        /\ serp_out.ret.value[2] = <<>> <=> serp_out.ret.value[1] = AnswerNotFound

\* a response with a result that has no link, after one that has, was answered
\* by the sentinel
C10_Witness ==
    /\ SearchedPlain
    /\ serp_api.raised = "none"
    /\ Len(serp_api.value) = 2
    /\ serp_api.value[1].link # Missing
    /\ serp_api.value[2].link = Missing
    /\ serp_out.ret = Ret(<<AnswerNotFound, <<>>>>)

---------------------------------------------------------------------------
(* What the chunking and index claims speak of. *)

HasPrefix(s, pre) == OccursAt(s, pre, 1)

ChunkerCalled == call.op = "get_text_chunks_with_references" /\ ~urls.none

(* C6: every chunk of a document whose source is at 0-based position i of   *)
(* the crawl URL list starts with "[reference:i+1] "; a chunk whose source  *)
(* is missing or not in the list starts with "[reference:unknown] "; the    *)
(* call does not fail.                                                      *)
C6_ChunkTaggedBySourcePosition ==
    ChunkerCalled =>
        /\ call.raised = "none"
        /\ \A k \in DOMAIN call.chunks :
              LET src == call.chunks[k].metadata.source
                  text == call.chunks[k].page_content
              IN  IF src # Missing /\ src \in Range(urls.val)
                  THEN \E i \in DOMAIN urls.val :
                          /\ urls.val[i] = src
                          /\ HasPrefix(text, Marker(WordLower, <<>>, PyStr(i)) \o <<" ">>)
                  ELSE HasPrefix(text, Marker(WordLower, <<>>, Unknown) \o <<" ">>)

IndexCall == call.op \in {"create_load_vector_store", "create_and_save_local"}

(* C8: when the index location does not exist and update is requested, the  *)
(* call reports an error and no index is created.                           *)
C8_UpdateOfAbsentIndexIsAnError ==
    (IndexCall /\ call.update /\ ~call.existed) =>
        /\ call.raised # "none"
        /\ ~disk.exists

\* the marker a chunk's text starts with, "" when it starts with none
ChunkMarker(chunk) ==
    IF MarkerAt(chunk.page_content, 1)
    THEN SubSeq(chunk.page_content, 1, CloseAfter(chunk.page_content, 1))
    ELSE <<>>

\* the index holds nothing but chunks of the crawls of this run
IndexOfCrawls ==
    /\ IndexCall
    /\ call.raised = "none"
    /\ ~urls.none
    /\ OldChunk \notin vector_store.val

NewChunks ==
    Range(get_text_chunks_with_references(urls, documents, ChunkSize, ChunkOverlap).value)

\* a step of create_load_vector_store after a crawl
CreateLoadStep == call'.op = "create_load_vector_store" /\ ~urls.none

Created == vector_store' = Store(NewChunks) /\ disk' = Stored(NewChunks)
LoadedAsIs == vector_store' = Store(disk.index) /\ disk' = disk /\ ~call'.chunked
Merged == vector_store' = Store(disk.index \cup NewChunks) /\ call'.chunked

(* C9 as stated: location absent -> the index is created from the chunks;   *)
(* present and no update requested -> the stored index is loaded as it is,  *)
(* no chunks are computed and what is stored does not change; present and   *)
(* update requested -> the index is loaded and the new chunks are merged.   *)
C9_DispatchOnIndexState ==
    [][CreateLoadStep =>
          /\ ~disk.exists => Created
          /\ (disk.exists /\ ~call'.update) => LoadedAsIs
          /\ (disk.exists /\ call'.update) => Merged]_vars

(* C9 as amended: as stated, but a present index is loaded as it is only    *)
(* when neither update nor force_reload is requested; with force_reload and *)
(* no update the index is created anew from the chunks.                     *)
C9_DispatchOnIndexStateAndFlags ==
    [][CreateLoadStep =>
          /\ ~disk.exists => Created
          /\ (disk.exists /\ ~call'.update /\ ~call'.force_reload) => LoadedAsIs
          /\ (disk.exists /\ ~call'.update /\ call'.force_reload) => Created
          /\ (disk.exists /\ call'.update) => Merged]_vars

\* an update has merged the chunks of a crawl into the index found at the location
C9_Witness ==
    /\ call.op = "create_load_vector_store"
    /\ call.update
    /\ call.existed
    /\ call.raised = "none"
    /\ OldChunk \in vector_store.val
    /\ vector_store.val # {OldChunk}
    /\ disk = Stored(vector_store.val)

---------------------------------------------------------------------------
(* What the later claims on the citation parser and the search call speak of. *)

(* C20: linkify raises for no answer and no link list, the empty list and   *)
(* the marker 0 among them: every marker with a number outside 1..|links|   *)
(* is rendered as the dead link [<sup>n</sup>](#), and no marker is         *)
(* rendered with a URL other than links[n-1].                               *)
C20_LinkifyNeverRaises ==
    Linkified =>
        /\ cite_ret.raised = "none"
        /\ Conforms(answer, 1, cite_ret.value, 1, links, "all")

\* querySerpapi was called with an engine line 255 does not let through
SearchedWithUnknownEngine ==
    /\ serp_op = "querySerpapi"
    /\ serp_args.engine \notin Engines

(* C14: with an engine other than 'google' and 'bing' querySerpapi fails    *)
(* with the invalid-argument error (ValueError) and has made no search API  *)
(* call and no LLM call, with and without analysis.                         *)
C14_EngineCheckedBeforeAnyCall ==
    SearchedWithUnknownEngine =>
        /\ serp_out.ret = Raise("ValueError")
        /\ serp_out.calls = <<>>

\* the call with analysis and an unknown engine has failed
C14_Witness ==
    /\ SearchedWithUnknownEngine
    /\ serp_args.do_analysis
    /\ serp_out.ret.raised = "ValueError"

\* host+path of an excluded entry, scheme, query and fragment discarded
NormalizedFragment(entry) ==
    CASE entry = EntryFull -> UrlA \o <<"/", "p">>
      [] entry = EntryBare -> UrlA
      [] entry = EntryNetloc -> UrlB
      [] entry = EntryPath -> UrlB \o <<"/", "p">>
      [] entry = EntryScheme -> <<>>
      [] entry = EntrySlash -> UrlC \o <<"/">>

Filtered == filt.op = "link_filter"

(* C15: link_filter returns exactly the set of the candidate links that     *)
(* contain the host+path of no excluded entry as a substring; so no link it *)
(* returns contains such a fragment, and with no excluded entry it returns  *)
(* all the candidate links, as a set.                                       *)
C15_FilterKeepsExactlyTheUnexcluded ==
    Filtered =>
        LET fragments == {NormalizedFragment(x) : x \in filt.excluded_links}
        IN  /\ filt.ret = {l \in Range(filt.all_links) :
                              \A x \in fragments : ~PyContains(l, x)}
            /\ \A l \in filt.ret : \A x \in fragments : ~PyContains(l, x)
            /\ filt.excluded_links = {} => filt.ret = Range(filt.all_links)

\* an entry with scheme, query and fragment has dropped one of two links
C15_Witness ==
    /\ Filtered
    /\ filt.excluded_links = {EntryFull}
    /\ Len(filt.all_links) = 2
    /\ Cardinality(filt.ret) = 1

---------------------------------------------------------------------------
(* What the claims on the turns of the assistant speak of. *)

\* the search of the call was made and gave no link
SearchGaveNoLink(t) ==
    /\ SearchAsked(t.args.search_method, t.args.search_engine)
    /\ (t.api.raised # "none" \/ t.api.value = <<>>)

NoCrawlIn(calls) == \A i \in DOMAIN calls : calls[i].call # "crawl"

(* C11: a search_and_scrape whose search yields no link returns the message *)
(* "No links found for '<query>'. Try again", crawls nothing, and leaves    *)
(* documents, urls, the vector store, the retrieval chain and the memory as *)
(* they were before the call.                                               *)
C11_NoLinksLeavesTheObjectAlone ==
    [][(turn'.op = "search_and_scrape" /\ SearchGaveNoLink(turn')) =>
          /\ turn'.ret = Ret([message |-> NoLinksFound(turn'.args.query)])
          /\ NoCrawlIn(turn'.calls)
          /\ UNCHANGED <<documents, urls, vector_store, disk, qa_chain, memory>>]_vars

\* a search without links has come after a crawl and a saved turn, and has
\* left the chain and the saved pair in place
C11_Witness ==
    /\ turn.op = "search_and_scrape"
    /\ SearchGaveNoLink(turn)
    /\ turn.ret.raised = "none"
    /\ ~qa_chain.none
    /\ ~urls.none
    /\ memory.saved # <<>>

\* the search of the call gave links, and the filters of web_crawl left none
CrawlLeftNothing ==
    /\ turn.op = "search_and_scrape"
    /\ SearchAsked(turn.args.search_method, turn.args.search_engine)
    /\ turn.api.raised = "none"
    /\ turn.api.value # <<>>
    /\ CrawlCandidates(LinksOf(turn.api.value).value, params.excluded_links) = {}

(* C12: when the crawl inside search_and_scrape has no link left after the  *)
(* suffix and the exclusion filter, the call raises nothing and returns the *)
(* "no links found, try again" value.                                       *)
C12_NothingToCrawlIsData ==
    CrawlLeftNothing =>
        /\ turn.ret.raised = "none"
        /\ turn.ret.value = [message |-> NoLinksFound(turn.args.query)]

\* the search call, the LLM call or a page fetch of the call raised
TransportFailed ==
    /\ turn.op \in {"basic_call", "search_and_scrape"}
    /\ SearchAsked(turn.args.search_method, turn.args.search_engine)
    /\ \/ turn.api.raised # "none"
       \/ turn.op = "basic_call" /\ turn.llm.raised # "none"
       \/ turn.op = "search_and_scrape" /\ ~turn.fetched

(* C13: an exception of the search call, of a page fetch or of an LLM call  *)
(* does not leave basic_call or search_and_scrape, and is logged with the   *)
(* query that triggered it.                                                 *)
C13_TransportFailureCaughtAndLogged ==
    TransportFailed =>
        /\ turn.ret.raised = "none"
        /\ \E i \in DOMAIN turn.log :
              turn.log[i].level = "error" /\ "query" \in turn.log[i].mentions

\* the query basic_call searches with
SearchedQuery(args) ==
    IF args.reformulated_query = None THEN args.query ELSE args.reformulated_query

\* the memory after the pair of the call has been saved
WithTurnSaved(mem, t) == Memory(Append(mem.saved, <<t.args.query, t.ret.value.answer>>))

(* C19: basic_call searches with the reformulated query; it saves the one   *)
(* pair (original query, final answer) when conversational is set and the   *)
(* answer has been produced, and leaves the memory as it was when           *)
(* conversational is not set or the search or the LLM raises.               *)
C19_MemorySavedOnlyAfterTheAnswer ==
    [][turn'.op = "basic_call" =>
          /\ \A i \in DOMAIN turn'.calls :
                turn'.calls[i].call = "search" =>
                   turn'.calls[i].q = restrict_to_official_sites(SearchedQuery(turn'.args),
                                                                 OFFICIAL_SITES)
          /\ (turn'.args.conversational /\ turn'.ret.raised = "none") =>
                memory' = WithTurnSaved(memory, turn')
          /\ (~turn'.args.conversational \/ turn'.ret.raised # "none") =>
                memory' = memory
          /\ UNCHANGED <<documents, urls, vector_store, disk, qa_chain>>]_vars

\* a conversational call with a reformulated query has saved its pair
C19_Witness ==
    /\ turn.op = "basic_call"
    /\ turn.args.conversational
    /\ turn.args.reformulated_query # None
    /\ turn.ret.raised = "none"
    /\ memory.saved = <<<<turn.args.query, turn.ret.value.answer>>>>

\* the script stands where it can only go on once the related-questions
\* task has finished
MainWaitsForTask == pc \in {"with_exit", "consume"} /\ task = "running"

\* C16: in handle_user_input the primary call is never blocked on the
\* related-questions task: the main flow waits for that task only where its
\* result is consumed, at related_querys_future.result().
C16_MainWaitsOnlyWhereResultConsumed == MainWaitsForTask => pc = "consume"

\* the run is over, the primary call had answered and the related-questions
\* task had raised
RelatedFailedPrimaryAnswered ==
    pc = "idle" /\ task = "failed" /\ ~locals.response.none

\* C17: when get_relevant_queries fails in a turn whose primary call
\* succeeds, the turn is not aborted: the question and the answer are the
\* last two entries of the chat history.
C17_RelatedFailureKeepsTheTurn ==
    RelatedFailedPrimaryAnswered =>
        LET h == session.chat_history
        IN  /\ Len(h) >= 2
            /\ h[Len(h) - 1] = locals.user_question
            /\ h[Len(h)] = locals.response.answer

\* the (question, answer) pairs of the turns shown in the session
ShownTurns ==
    LET h == session.chat_history
    IN  {<<h[2 * i - 1], h[2 * i]>> : i \in 1..(Len(h) \div 2)}

\* the query of this turn has just been reformulated
JustReformulated == pc = "submit" /\ locals.reformulated_query # None

\* C18: the memory persists for the session: without a reset, the memory
\* from which the query of turn k+1 is reformulated holds what the earlier
\* turns of the session saved.
C18_MemoryPersistsAcrossTurns ==
    JustReformulated =>
        \A t \in ShownTurns :
            \E i \in DOMAIN locals.chat_history : locals.chat_history[i] = t

\* the three histories hold the same number of turns
Aligned ==
    /\ Len(session.chat_history) = 2 * Len(session.sources_history)
    /\ Len(session.chat_history) = 2 * Len(session.related_queries_history)

\* no call of handle_user_input is under way
BetweenCalls == pc \in {"idle", "rerun"}

\* the reset button has cleared the histories
Cleared == pc = "idle" /\ session' = NewSession

\* line 47 or 63 has appended the related questions of the turn
RelatedAppended ==
    /\ pc = "consume" /\ pc' = "append" /\ task = "done"
    /\ session' = [session EXCEPT !.related_queries_history = Append(@, RelatedQueries)]

\* lines 64-72 have appended the question, the answer and the sources
TurnAppended ==
    /\ pc = "append" /\ pc' = "idle" /\ locals.raised = "none" /\ UNCHANGED locals
    /\ session'.chat_history =
          session.chat_history \o <<locals.user_question, locals.response.answer>>
    /\ Len(session'.sources_history) = Len(session.sources_history) + 1
    /\ session'.related_queries_history = session.related_queries_history

\* an exception ends the call of handle_user_input
FailedTurnEnds == locals.raised = "none" /\ locals'.raised # "none"

HistoryStep ==
    /\ session' # session => Cleared \/ RelatedAppended \/ TurnAppended
    /\ pc = "append" => TurnAppended
    /\ FailedTurnEnds => UNCHANGED session /\ pc # "append" /\ pc' = "idle"

\* C21: between the calls of handle_user_input the chat history is twice as
\* long as the sources history and as the related-questions history; the
\* histories change only by a reset that empties them and by a turn that
\* appends its question and answer, in this order, with one entry of sources
\* and one of related questions; a turn that ends with an exception leaves
\* the three histories as they were.
C21_HistoriesAligned ==
    /\ [](BetweenCalls => Aligned)
    /\ [][HistoryStep]_vars

\* a turn was appended, and the next one has failed at the related questions
C21_Witness ==
    /\ pc = "idle" /\ task = "failed" /\ locals.raised # "none"
    /\ ~locals.response.none
    /\ Len(session.chat_history) = 2
    /\ Aligned

=============================================================================
